---------------------------- MODULE Spec2Model ----------------------------
(***************************************************************************)
(* A model of qimcifa, the "quantum-inspired Monte Carlo integer factoring *)
(* algorithm": mainBody and waitForSuccess of src/src/qimcifa.cpp (the     *)
(* distributed, multi-threaded engine).                                    *)
(*                                                                         *)
(* Integers.  mainBody is instantiated at bitCapInt = uint64_t for every   *)
(* target below 2^32 (QBCAPBITS = 6 + 32 < 64).  TLC's integers end at     *)
(* 2^31 - 1, so the model carries the program's unsigned values exactly as *)
(* long as they stay below 2^31 and never go negative; an operation whose  *)
(* result would wrap around 2^64 (or whose shift count is out of range)    *)
(* takes the process to the position "beyond", where the model stops       *)
(* following it.  Nothing is concluded about a process that is "beyond".   *)
(***************************************************************************)
EXTENDS Integers, Sequences, FiniteSets

(***************************************************************************)
(* Bounds of the model.                                                    *)
(***************************************************************************)
\* Targets 2..MaxTarget are all tried, next to the scenario targets below.
MaxTarget == 6
\* nodeCount ranges over 1..MaxNodes.
MaxNodes == 2
\* cpuCount (std::thread::hardware_concurrency()) ranges over 1..MaxCpu.
MaxCpu == 2
\* The batch length.  The source sets BASE_TRIALS = 1U << 16U (qimcifa.cpp:106);
\* the model runs batches of this many candidates.
BASE_TRIALS == 2

\* Targets beyond MaxTarget that exercise the paths of the engine:
\*   15    3 * 5, the target of the small-prime short-circuit scenario
\*   17    the smallest target whose semiprime-mode ranges do not wrap
\*   61    a prime above the trial-division level (general mode: range wraps)
\*   87    3 * 29, a candidate base equal to the target itself
\*   150   a target with the first candidate base, 75, as a divisor
\*   178   2 * 89, with the candidate base 89 as a proper divisor
\*   589   19 * 31
\*   3721  61 * 61, the smallest composite without a prime factor <= 59
ScenarioTargets == {15, 17, 61, 87, 150, 178, 589, 3721}

Targets == (2..MaxTarget) \cup ScenarioTargets

(***************************************************************************)
(* The Small-Prime Table (mainBody): the first 25 of its 1000 entries.     *)
(* With targets below 2^31 the trial-division level is 59 and no entry     *)
(* past index 17 (the prime 61) is read.                                   *)
(***************************************************************************)
trialDivisionPrimes ==
    <<2, 3, 5, 7, 11, 13, 17, 19, 23, 29, 31, 37, 41, 43, 47, 53, 59, 61,
      67, 71, 73, 79, 83, 89, 97>>

\* trialDivisionPrimes.size()
TableSize == Len(trialDivisionPrimes)

\* trialDivisionPrimes[i], C++ index from 0
Prime(i) == trialDivisionPrimes[i + 1]

(***************************************************************************)
(* main: the bit length of the target.                                     *)
(***************************************************************************)
RECURSIVE ShiftCount(_)
\* the number of iterations of: while (p) { p >>= 1U; ++qubitCount; }
ShiftCount(p) == IF p = 0 THEN 0 ELSE 1 + ShiftCount(p \div 2)

RECURSIVE isPowerOfTwo(_)
\* toFactor && !(toFactor & (toFactor - 1ULL))
isPowerOfTwo(x) ==
    IF x = 0 THEN FALSE
    ELSE IF x = 1 THEN TRUE
    ELSE IF x % 2 = 1 THEN FALSE
    ELSE isPowerOfTwo(x \div 2)

QubitCount(N) == ShiftCount(N \div 2) + (IF isPowerOfTwo(N) THEN 0 ELSE 1)

\* pickTrialDivisionLevel, its table region (qubitCount <= 70).  The model's
\* targets are below 2^31, so the exponential fit above 70 bits is not reached.
pickTrialDivisionLevel(qubitCount) ==
    CASE qubitCount <= 58 -> 59
      [] qubitCount > 58 /\ qubitCount <= 60 -> 191
      [] qubitCount > 60 /\ qubitCount <= 62 -> 193
      [] qubitCount > 62 /\ qubitCount <= 64 -> 199
      [] qubitCount > 64 /\ qubitCount <= 66 -> 211
      [] qubitCount > 66 /\ qubitCount <= 68 -> 229
      [] qubitCount > 68 /\ qubitCount <= 70 -> 233

(***************************************************************************)
(* mainBody: the walks over the Small-Prime Table.                         *)
(***************************************************************************)
RECURSIVE WalkIndex(_, _)
\* primeIndex when the loop  while (currentPrime <= L) { ...; primeIndex++;
\* if (primeIndex >= size) break; currentPrime = table[primeIndex]; }
\* is left, entered with primeIndex = i and currentPrime = Prime(i).
WalkIndex(i, L) ==
    IF Prime(i) <= L
    THEN IF i + 1 >= TableSize THEN i + 1 ELSE WalkIndex(i + 1, L)
    ELSE i

\* currentPrime when that loop is left: the break leaves it at the last entry.
WalkPrime(L) ==
    LET i == WalkIndex(0, L)
    IN IF i >= TableSize THEN Prime(TableSize - 1) ELSE Prime(i)

\* primeIndex after the clamp  if (primeIndex >= size) primeIndex = size - 1;
ClampedIndex(L) ==
    LET i == WalkIndex(0, L)
    IN IF i >= TableSize THEN TableSize - 1 ELSE i

\* The indices the loop body runs at: 0 .. WalkIndex - 1.
WalkedIndices(L) == 0..(WalkIndex(0, L) - 1)

\* A walk that reports the last dividing prime instead of returning at the first.
LastDivisor(N, L) ==
    LET hits == {i \in WalkedIndices(L) : N % Prime(i) = 0}
    IN IF hits = {} THEN 0
       ELSE Prime(CHOOSE i \in hits : \A j \in hits : i >= j)

\* !IS_RSA_SEMIPRIME: the first table prime <= L that divides toFactor, at which
\* the loop prints the factors and returns; 0 when the loop runs to its end.
FirstDivisor(N, L) ==
    LET hits == {i \in WalkedIndices(L) : N % Prime(i) = 0}
    IN IF hits = {} THEN 0
       ELSE Prime(CHOOSE i \in hits : \A j \in hits : i <= j)


(***************************************************************************)
(* mainBody: the full range (lines 257-293).                               *)
(***************************************************************************)
RECURSIVE Pow2(_)
\* 1ULL << n
Pow2(n) == IF n = 0 THEN 1 ELSE 2 * Pow2(n - 1)

\* x | 1U
OrOne(x) == IF x % 2 = 0 THEN x + 1 ELSE x

\* primeDict[primeBits]: the known test cases.  Its entry for 32 bits holds
\* 8589934583, which only a target of 63 bits or more selects.
primeDict(primeBits) ==
    CASE primeBits = 16 -> <<16411, 131071>>
      [] primeBits = 28 -> <<67108879, 536870909>>
      [] OTHER -> <<>>

\* const uint32_t primeBits = (qubitCount + 1U) >> 1U;
PrimeBits(N) == (QubitCount(N) + 1) \div 2

\* IS_RSA_SEMIPRIME: 1ULL << (primeBits - 2U) has an out-of-range shift count
\* when primeBits < 2 (primeBits - 2U is then 2^32 - 1 or 2^32 - 2).
ShiftInRange(N) == PrimeBits(N) >= 2

\* !IS_RSA_SEMIPRIME: "as low as the next odd number after the highest trial
\* division prime", the currentPrime the first walk has left.
FullMinBase(N, semi, curPrime) ==
    IF semi
    THEN IF Len(primeDict(PrimeBits(N))) > 0
         THEN primeDict(PrimeBits(N))[1]
         ELSE OrOne(Pow2(PrimeBits(N) - 2))
    ELSE curPrime

FullMaxBase(N, semi, curPrime) ==
    IF semi
    THEN IF Len(primeDict(PrimeBits(N))) > 0
         THEN primeDict(PrimeBits(N))[2]
         ELSE Pow2(PrimeBits(N) + 1) - 1
    ELSE N \div curPrime

RECURSIVE ShrinkFrom(_, _, _)
\* fullRange *= currentPrime - 1U; fullRange /= currentPrime;  for the walked
\* primes in ascending order, from index i on.
ShrinkFrom(fullRange, i, L) ==
    IF i < TableSize /\ Prime(i) <= L
    THEN ShrinkFrom((fullRange * (Prime(i) - 1)) \div Prime(i), i + 1, L)
    ELSE fullRange

\* fullRange after the shrinking loop
FullRange(fullMinBase, fullMaxBase, L) ==
    ShrinkFrom(fullMaxBase + 1 - fullMinBase, 0, L)

(***************************************************************************)
(* mainBody: the node's and the threads' ranges (lines 295-297, 322-342).  *)
(***************************************************************************)
\* A node range rounded down instead of up.
FloorNodeRange(fullRange, nodeCnt) == fullRange \div nodeCnt

\* const bitCapInt nodeRange = (fullRange + nodeCount - 1U) / nodeCount;
NodeRange(fullRange, nodeCnt) == (fullRange + nodeCnt - 1) \div nodeCnt

NodeMin(fullMinBase, nodeRng, node) == fullMinBase + nodeRng * node

NodeMax(fullMinBase, nodeRng, node) == NodeMin(fullMinBase, nodeRng, node) + nodeRng

\* A stride that is the ceiling of (nodeMax - nodeMin) / cpuCount.
CeilThreadRange(nodeMn, nodeMx, cpus) == (nodeMx - nodeMn + cpus - 1) \div cpus

\* (cpuCount + nodeMax - (nodeMin - 1U)) / cpuCount
ThreadRange(nodeMn, nodeMx, cpus) == (cpus + nodeMx - (nodeMn - 1)) \div cpus

\* bitCapInt threadMin = (nodeMin + threadRange * cpu) | 1U;
ThreadMinStart(nodeMn, threadRng, c) == OrOne(nodeMn + threadRng * c)

\* bitCapInt threadMax = threadMin + threadRange;
ThreadMax(nodeMn, threadRng, c) == ThreadMinStart(nodeMn, threadRng, c) + threadRng

RECURSIVE AlignFrom(_, _, _)
\* threadMin = (threadMin / currentPrime) * currentPrime;  for the walked
\* primes in ascending order, from index i on.
AlignFrom(threadMin, i, L) ==
    IF i < TableSize /\ Prime(i) <= L
    THEN AlignFrom((threadMin \div Prime(i)) * Prime(i), i + 1, L)
    ELSE threadMin

\* threadMin as handed to the worker: aligned, then (threadMin | 1U) + 2U
ThreadMin(nodeMn, threadRng, c, L) ==
    OrOne(AlignFrom(ThreadMinStart(nodeMn, threadRng, c), 0, L)) + 2

(***************************************************************************)
(* waitForSuccess: the sampler transform (lines 123-140) and the test      *)
(* (lines 143-162).                                                        *)
(***************************************************************************)
\* base += base / (trialDivisionPrimes[i] - 1U) + 1U;
SkipPrime(base, i) == base + base \div (Prime(i) - 1) + 1

RECURSIVE SkipPrimes(_, _)
\* for (i = primeIndex; i > 2U; --i) base += base / (table[i] - 1U) + 1U;
\* (b ranges over the one value of the step, so that it is computed once.)
SkipPrimes(base, i) ==
    IF i > 2
    THEN CHOOSE r \in {SkipPrimes(b, i - 1) : b \in {SkipPrime(base, i)}} : TRUE
    ELSE base

\* base += (base >> 2U) + 1U;
SkipFive(base) == base + base \div 4 + 1

\* x & ~1U.  ~1U is the 32-bit 0xFFFFFFFE: the mask clears bit 0 and, of a
\* 64-bit x, the bits from 32 up; the model's values are below 2^31.
ClearBitZero(x) == x - (x % 2)

\* base = (((base << 1U) + base) & ~1U) + threadMin;
SkipTwoThree(base, threadMin) == ClearBitZero(2 * base + base) + threadMin

\* The candidate base made of one raw draw.
Candidate(raw, threadMin, primeIdx) ==
    CHOOSE c \in {SkipTwoThree(b5, threadMin) :
                    b5 \in {SkipFive(bp) : bp \in {SkipPrimes(raw, primeIdx)}}} : TRUE

RECURSIVE GcdLoop(_, _)
\* while (n2) { t = n1; n1 = n2; n2 = t % n2; }  leaves the result in n1
GcdLoop(n1, n2) ==
    IF n2 = 0 THEN n1
    ELSE CHOOSE r \in {GcdLoop(n2, m) : m \in {n1 % n2}} : TRUE

\* The factor the test of one candidate finds, 0 when it finds none.
FoundFactor(N, base, semi) ==
    IF semi
    THEN IF N % base = 0 THEN base ELSE 0
    ELSE IF GcdLoop(N, base) # 1 THEN GcdLoop(N, base) ELSE 0


(***************************************************************************)
(* The state of one run of mainBody.                                       *)
(***************************************************************************)
VARIABLES
    toFactor,       \* the target N
    semiprime,      \* IS_RSA_SEMIPRIME, fixed for the run
    nodeCount,      \* number of nodes
    nodeId,         \* this node
    cpuCount,       \* std::thread::hardware_concurrency()
    mainPc,         \* where mainBody is: "trial", "range", "launch", "join",
                    \* "done", "beyond"
    cpu,            \* the loop variable of the launch loop and of the join loop
    primeIndex,     \* mainBody's local primeIndex
    currentPrime,   \* mainBody's local currentPrime
    capturedIndex,  \* the copy of primeIndex the lambda workerFn has captured
    fullMinBase, fullMaxBase, fullRange,
    nodeRange, nodeMin, nodeMax, threadRange,
    isFinished,     \* the std::atomic<bool> all workers share
    worker,         \* the worker threads, by cpu
    reports         \* the factor pairs printed so far, in order

vars == <<toFactor, semiprime, nodeCount, nodeId, cpuCount, mainPc, cpu,
          primeIndex, currentPrime, capturedIndex, fullMinBase, fullMaxBase,
          fullRange, nodeRange, nodeMin, nodeMax, threadRange, isFinished,
          worker, reports>>

inputs == <<toFactor, semiprime, nodeCount, nodeId, cpuCount>>

ranges == <<fullMinBase, fullMaxBase, fullRange, nodeRange, nodeMin, nodeMax,
            threadRange, capturedIndex>>

Threads == 0..(MaxCpu - 1)

\* TRIAL_DIVISION_LEVEL of the run
Level == pickTrialDivisionLevel(QubitCount(toFactor))

\* A thread that has not been launched.  pc is the thread's position:
\*   "idle"     not launched
\*   "start"    launched, at the head of workerFn
\*   "sample"   at the head of the batch loop's body
\*   "drawing"  inside the call of the distribution on rand_gen
\*   "print"    has set isFinished, about to call printSuccess
\*   "check"    between batches, about to read isFinished
\*   "returned" workerFn has returned
\*   "beyond"   its range has wrapped around 2^64 (not followed further)
IdleWorker ==
    [pc |-> "idle", threadMin |-> 0, threadMax |-> 0, range |-> 0,
     batchItem |-> 0, factor |-> 0]

Init ==
    /\ toFactor \in Targets
    /\ semiprime \in BOOLEAN
    /\ nodeCount \in 1..MaxNodes
    /\ nodeId \in 0..(nodeCount - 1)
    /\ cpuCount \in 1..MaxCpu
    /\ mainPc = "trial"
    /\ cpu = 0
    /\ primeIndex = 0
    /\ currentPrime = 2
    /\ capturedIndex = 0
    /\ fullMinBase = 0 /\ fullMaxBase = 0 /\ fullRange = 0
    /\ nodeRange = 0 /\ nodeMin = 0 /\ nodeMax = 0 /\ threadRange = 0
    /\ isFinished = FALSE
    /\ worker = [t \in Threads |-> IdleWorker]
    /\ reports = <<>>

(***************************************************************************)
(* mainBody                                                                *)
(***************************************************************************)
\* Lines 235-255: the first walk over the table; with !IS_RSA_SEMIPRIME it
\* prints "Factors: p * N/p" at the first prime that divides and returns.
TrialDivision ==
    /\ mainPc = "trial"
    /\ LET p == IF semiprime THEN 0 ELSE FirstDivisor(toFactor, Level)
       IN IF p # 0
          THEN /\ reports' = Append(reports,
                      [by |-> -1, f1 |-> p, f2 |-> toFactor \div p])
               /\ mainPc' = "done"
               /\ currentPrime' = p
               /\ UNCHANGED primeIndex
          ELSE /\ mainPc' = "range"
               /\ primeIndex' = ClampedIndex(Level)
               /\ currentPrime' = WalkPrime(Level)
               /\ UNCHANGED reports
    /\ UNCHANGED <<inputs, ranges, cpu, isFinished, worker>>

\* Lines 257-304 and 322: the full range, its shrinking, the node's range, the
\* generator, the flag, the lambda (which copies primeIndex), the threads' stride.
Partition ==
    /\ mainPc = "range"
    /\ LET mn == FullMinBase(toFactor, semiprime, currentPrime)
           mx == FullMaxBase(toFactor, semiprime, currentPrime)
           fr == FullRange(mn, mx, Level)
           nr == NodeRange(fr, nodeCount)
       IN IF (semiprime /\ ~ShiftInRange(toFactor)) \/ mx + 1 < mn
          THEN /\ mainPc' = "beyond"
               /\ UNCHANGED <<ranges, primeIndex, currentPrime, isFinished>>
          ELSE /\ fullMinBase' = mn
               /\ fullMaxBase' = mx
               /\ fullRange' = fr
               /\ primeIndex' = ClampedIndex(Level)
               /\ currentPrime' = WalkPrime(Level)
               /\ nodeRange' = nr
               /\ nodeMin' = NodeMin(mn, nr, nodeId)
               /\ nodeMax' = NodeMax(mn, nr, nodeId)
               /\ isFinished' = FALSE
               /\ capturedIndex' = ClampedIndex(Level)
               /\ threadRange' = ThreadRange(NodeMin(mn, nr, nodeId),
                                             NodeMax(mn, nr, nodeId), cpuCount)
               /\ mainPc' = "launch"
    /\ UNCHANGED <<inputs, cpu, worker, reports>>

\* A launch loop that (re)initialises the flag at every launch.
LaunchResetsFlag ==
    /\ mainPc = "launch"
    /\ cpu < cpuCount
    /\ worker' = [worker EXCEPT ![cpu] =
                    [IdleWorker EXCEPT
                        !.pc = "start",
                        !.threadMin = ThreadMin(nodeMin, threadRange, cpu, Level),
                        !.threadMax = ThreadMax(nodeMin, threadRange, cpu)]]
    /\ primeIndex' = WalkIndex(0, Level)
    /\ currentPrime' = WalkPrime(Level)
    /\ isFinished' = FALSE
    /\ IF cpu + 1 < cpuCount
       THEN cpu' = cpu + 1 /\ mainPc' = "launch"
       ELSE cpu' = 0 /\ mainPc' = "join"
    /\ UNCHANGED <<inputs, ranges, reports>>

\* Lines 324-345, one iteration: thread cpu's bounds, and its launch.
Launch ==
    /\ mainPc = "launch"
    /\ cpu < cpuCount
    /\ worker' = [worker EXCEPT ![cpu] =
                    [IdleWorker EXCEPT
                        !.pc = "start",
                        !.threadMin = ThreadMin(nodeMin, threadRange, cpu, Level),
                        !.threadMax = ThreadMax(nodeMin, threadRange, cpu)]]
    /\ primeIndex' = WalkIndex(0, Level)
    /\ currentPrime' = WalkPrime(Level)
    /\ IF cpu + 1 < cpuCount
       THEN cpu' = cpu + 1 /\ mainPc' = "launch"
       ELSE cpu' = 0 /\ mainPc' = "join"
    /\ UNCHANGED <<inputs, ranges, isFinished, reports>>

\* Lines 347-351: futures[cpu].get(), in order; then return 0.
Join ==
    /\ mainPc = "join"
    /\ worker[cpu].pc = "returned"
    /\ IF cpu + 1 < cpuCount
       THEN cpu' = cpu + 1 /\ mainPc' = "join"
       ELSE cpu' = cpu + 1 /\ mainPc' = "done"
    /\ UNCHANGED <<inputs, ranges, primeIndex, currentPrime, isFinished, worker,
                   reports>>

(***************************************************************************)
(* workerFn and waitForSuccess, thread t                                   *)
(***************************************************************************)
\* The generator a thread's distributions draw from: workerFn captures
\* mainBody's rand_gen by reference and hands that reference on.
GeneratorOf(t) == "rand_gen"

\* Lines 312-319 and 102-118: the range and the distribution.
WorkerStart(t) ==
    /\ worker[t].pc = "start"
    /\ LET r == worker[t].threadMax - (worker[t].threadMin + 1)
       IN IF r < 0
          THEN worker' = [worker EXCEPT ![t].pc = "beyond"]
          ELSE worker' = [worker EXCEPT ![t].pc = "sample", ![t].range = r,
                                        ![t].batchItem = 0]
    /\ UNCHANGED <<inputs, ranges, mainPc, cpu, primeIndex, currentPrime,
                   isFinished, reports>>

\* Line 123: the thread enters baseDist[0U](rand_gen).
DrawBegin(t) ==
    /\ worker[t].pc = "sample"
    /\ worker' = [worker EXCEPT ![t].pc = "drawing"]
    /\ UNCHANGED <<inputs, ranges, mainPc, cpu, primeIndex, currentPrime,
                   isFinished, reports>>

\* Lines 123-162: the draw returns raw, the transform makes the candidate, the
\* test; on success the flag is set (the print follows), else ++batchItem.
Trial(t) ==
    /\ worker[t].pc = "drawing"
    /\ \E raw \in 0..worker[t].range :
       \E base \in {Candidate(raw, worker[t].threadMin, capturedIndex)} :
       \E f \in {FoundFactor(toFactor, base, semiprime)} :
             IF f # 0
             THEN /\ isFinished' = TRUE
                  /\ worker' = [worker EXCEPT ![t].pc = "print",
                                              ![t].factor = f]
             ELSE /\ worker' = [worker EXCEPT
                         ![t].batchItem = worker[t].batchItem + 1,
                         ![t].pc = IF worker[t].batchItem + 1 < BASE_TRIALS
                                   THEN "sample" ELSE "check"]
                  /\ UNCHANGED isFinished
    /\ UNCHANGED <<inputs, ranges, mainPc, cpu, primeIndex, currentPrime, reports>>

\* Lines 146-147 (159-160): printSuccess, return true.
PrintSuccess(t) ==
    /\ worker[t].pc = "print"
    /\ reports' = Append(reports,
            [by |-> t, f1 |-> worker[t].factor,
             f2 |-> toFactor \div worker[t].factor])
    /\ worker' = [worker EXCEPT ![t].pc = "returned"]
    /\ UNCHANGED <<inputs, ranges, mainPc, cpu, primeIndex, currentPrime,
                   isFinished>>

\* A batch boundary that starts the next batch whatever the flag says.
BatchCheckIgnoresFlag(t) ==
    /\ worker[t].pc = "check"
    /\ worker' = [worker EXCEPT ![t].pc = "sample", ![t].batchItem = 0]
    /\ UNCHANGED <<inputs, ranges, mainPc, cpu, primeIndex, currentPrime,
                   isFinished, reports>>

\* Lines 165-168: between batches, if (isFinished) return true.
BatchCheck(t) ==
    /\ worker[t].pc = "check"
    /\ IF isFinished
       THEN worker' = [worker EXCEPT ![t].pc = "returned"]
       ELSE worker' = [worker EXCEPT ![t].pc = "sample", ![t].batchItem = 0]
    /\ UNCHANGED <<inputs, ranges, mainPc, cpu, primeIndex, currentPrime,
                   isFinished, reports>>

WorkerStep(t) ==
    \/ WorkerStart(t)
    \/ DrawBegin(t)
    \/ Trial(t)
    \/ PrintSuccess(t)
    \/ BatchCheck(t)

MainStep ==
    \/ TrialDivision
    \/ Partition
    \/ Launch
    \/ Join

Next ==
    \/ MainStep
    \/ \E t \in Threads : WorkerStep(t)

Spec == Init /\ [][Next]_vars

\* The scheduler keeps running the process: as long as mainBody or some thread
\* can take a step, one of them does.  (No thread needs a fair share of its own
\* for what follows a set flag: every thread is then finitely many steps from
\* its return.)
FairSpec == Init /\ [][Next]_vars /\ WF_vars(Next)


(***************************************************************************)
(* Properties                                                              *)
(***************************************************************************)
\* The ranges of the run have been computed.
Partitioned == threadRange > 0

\* The table primes <= L: the trial-division set.
TrialPrimes == {Prime(i) : i \in {j \in 0..(TableSize - 1) : Prime(j) <= Level}}

\* The candidate bases thread t can test next.
NextCandidates(t) ==
    {Candidate(raw, worker[t].threadMin, capturedIndex) : raw \in 0..worker[t].range}

\* The threads that have been launched.
Launched == {t \in Threads : worker[t].pc # "idle"}

\* C1: every reported factor pair (f1, f2) has f1 * f2 = N, f1 > 1 and f2 > 1.
C1_ReportedPairsAreProper ==
    \A i \in 1..Len(reports) :
        /\ reports[i].f1 * reports[i].f2 = toFactor
        /\ reports[i].f1 > 1
        /\ reports[i].f2 > 1

\* C2: no candidate base a thread tests is divisible by a prime of the
\* trial-division set.
C2_CandidatesAvoidTrialPrimes ==
    \A t \in Threads :
        worker[t].pc = "drawing" =>
            \A base \in NextCandidates(t) : \A p \in TrialPrimes : base % p # 0

\* C3, as claimed: the nodes' ranges [nodeMin, nodeMax] cover every value of
\* [fullMinBase, fullMaxBase], two nodes' ranges share at most one value, and
\* with one node the node bounds are the full bounds.
C3_NodesCoverFullRange ==
    Partitioned =>
        LET lo(j) == NodeMin(fullMinBase, nodeRange, j)
            hi(j) == NodeMax(fullMinBase, nodeRange, j)
            Nodes == 0..(nodeCount - 1)
        IN /\ nodeMin = lo(nodeId) /\ nodeMax = hi(nodeId)
           /\ \A x \in fullMinBase..fullMaxBase :
                 \E j \in Nodes : lo(j) <= x /\ x <= hi(j)
           /\ \A j, k \in Nodes :
                 j # k => Cardinality((lo(j)..hi(j)) \cap (lo(k)..hi(k))) <= 1
           /\ nodeCount = 1 => (nodeMin = fullMinBase /\ nodeMax = fullMaxBase)

\* C3, amended: the nodes' ranges cover every value of the shrunk range
\* [fullMinBase, fullMinBase + fullRange] (fullRange after the per-prime
\* shrinking), two nodes' ranges share at most one value, and with one node
\* nodeMin = fullMinBase and nodeMax = fullMinBase + fullRange, which does
\* not exceed fullMaxBase + 1.
C3_NodesCoverShrunkRange ==
    Partitioned =>
        LET lo(j) == NodeMin(fullMinBase, nodeRange, j)
            hi(j) == NodeMax(fullMinBase, nodeRange, j)
            Nodes == 0..(nodeCount - 1)
        IN /\ nodeMin = lo(nodeId) /\ nodeMax = hi(nodeId)
           /\ \A x \in fullMinBase..(fullMinBase + fullRange) :
                 \E j \in Nodes : lo(j) <= x /\ x <= hi(j)
           /\ \A j, k \in Nodes :
                 j # k => Cardinality((lo(j)..hi(j)) \cap (lo(k)..hi(k))) <= 1
           /\ nodeCount = 1 =>
                 /\ nodeMin = fullMinBase
                 /\ nodeMax = fullMinBase + fullRange
                 /\ nodeMax <= fullMaxBase + 1

\* C3, witness: several nodes share a range that the shrinking has left non-empty.
C3_Witness ==
    /\ Partitioned
    /\ nodeCount > 1
    /\ nodeId > 0
    /\ fullRange > 0
    /\ fullRange % nodeCount # 0

\* C4: at most one success report is printed in a run.
C4_SuccessReportedOnce == Len(reports) <= 1

\* C5: once the flag is true no thread starts another batch at a batch
\* boundary, and the run ends: every thread returns and mainBody's join
\* completes.
C5_FlagEndsTheRun ==
    /\ [][isFinished =>
            \A t \in Threads :
                worker[t].pc = "check" => worker'[t].pc \in {"check", "returned"}]_vars
    /\ isFinished ~> (mainPc = "done" /\ \A t \in Launched : worker[t].pc = "returned")

\* C5, witness: the run has ended with a thread that returned at a batch
\* boundary, on the flag another thread has set.
C5_Witness ==
    /\ isFinished
    /\ mainPc = "done"
    /\ \E t \in Threads : worker[t].pc = "returned" /\ worker[t].factor = 0

\* C6: the flag is false when the launch of the threads begins, and once true
\* it stays true.
C6_FlagWriteOnce ==
    /\ []((mainPc = "launch" /\ cpu = 0) => ~isFinished)
    /\ [][isFinished => isFinished']_vars

\* C6, witness: a thread of several has set the flag, and the flag is still set
\* when the run has ended.
C6_Witness ==
    /\ isFinished
    /\ mainPc = "done"
    /\ cpuCount > 1
    /\ \E t \in Threads : worker[t].pc = "returned" /\ worker[t].factor # 0

\* C7: every candidate base a thread tests lies in [threadMin, threadMax).
C7_CandidatesInThreadInterval ==
    \A t \in Threads :
        worker[t].pc = "drawing" =>
            \A base \in NextCandidates(t) :
                worker[t].threadMin <= base /\ base < worker[t].threadMax

\* C8: the intervals [threadMin, threadMax) of two launched threads do not
\* overlap.
C8_ThreadIntervalsDisjoint ==
    \A t, u \in Launched :
        t # u =>
            (worker[t].threadMin..(worker[t].threadMax - 1))
                \cap (worker[u].threadMin..(worker[u].threadMax - 1)) = {}

\* C9: no two threads are inside a draw on the same generator.
C9_NoSharedGenerator ==
    \A t, u \in Threads :
        (t # u /\ worker[t].pc = "drawing" /\ worker[u].pc = "drawing")
            => GeneratorOf(t) # GeneratorOf(u)

\* The table primes <= L that divide the target.
SmallFactors == {p \in TrialPrimes : toFactor % p = 0}

\* C10: in general mode, a target with a table prime factor <= L is reported as
\* (p, N / p), p its smallest such factor, by mainBody alone: no thread is ever
\* launched and nothing is drawn.  15 is reported as (3, 5).
C10_SmallFactorShortCircuit ==
    (~semiprime /\ SmallFactors # {}) =>
        /\ mainPc \in {"trial", "done"}
        /\ Launched = {}
        /\ mainPc = "done" =>
              /\ Len(reports) = 1
              /\ reports[1].by = -1
              /\ \A p \in SmallFactors : reports[1].f1 <= p
              /\ reports[1].f1 \in SmallFactors
              /\ reports[1].f2 * reports[1].f1 = toFactor
              /\ toFactor = 15 => (reports[1].f1 = 3 /\ reports[1].f2 = 5)

\* C10, witness: the run for 15 has ended with the report (3, 5).
C10_Witness ==
    /\ ~semiprime
    /\ toFactor = 15
    /\ mainPc = "done"
    /\ reports = <<[by |-> -1, f1 |-> 3, f2 |-> 5]>>

\* The ranges of the run have been computed (mainBody has passed line 322).
RangesComputed == mainPc \in {"launch", "join"} \/ Launched # {}

\* The threads that have computed their range (workerFn, line 312).
Sampling == {t \in Launched : worker[t].pc \notin {"start", "beyond"}}

\* C11: in semiprime mode with one node, for 589 = 19 * 31, once the threads
\* are running some thread has a raw draw within its range whose candidate
\* base is a proper factor of 589, so that the report (19, 31) can be reached.
C11_FactorOf589Reachable ==
    (/\ toFactor = 589 /\ semiprime /\ nodeCount = 1
     /\ mainPc = "join" /\ Sampling = Launched)
        => \E t \in Sampling : \E base \in NextCandidates(t) : base \in {19, 31}

\* C12: with cpuCount = 1 the interval [threadMin, threadMax) of the one thread
\* is the node's range [nodeMin, nodeMax).
C12_SingleThreadCoversNode ==
    (cpuCount = 1 /\ 0 \in Launched) =>
        /\ worker[0].threadMin = nodeMin
        /\ worker[0].threadMax = nodeMax

\* C14, as claimed: the threads' stride is the ceiling of nodeRange / cpuCount,
\* nodeRange = nodeMax - nodeMin.
C14_StrideIsCeiling ==
    RangesComputed =>
        /\ nodeRange = nodeMax - nodeMin
        /\ threadRange = (nodeRange + cpuCount - 1) \div cpuCount

\* C14, amended: the threads' stride is floor((nodeRange + 1) / cpuCount) + 1,
\* nodeRange = nodeMax - nodeMin; it is at least the ceiling of
\* nodeRange / cpuCount and exceeds it by at most 2 (by exactly 2 when
\* cpuCount = 1).
C14_StrideIsFloorPlusOne ==
    RangesComputed =>
        LET ceiling == (nodeRange + cpuCount - 1) \div cpuCount
        IN /\ nodeRange = nodeMax - nodeMin
           /\ threadRange = (nodeRange + 1) \div cpuCount + 1
           /\ ceiling <= threadRange /\ threadRange <= ceiling + 2
           /\ cpuCount = 1 => threadRange = nodeRange + 2

\* C14, witness: a node range that several threads do not divide evenly.
C14_Witness ==
    /\ RangesComputed
    /\ cpuCount > 1
    /\ nodeRange > cpuCount
    /\ nodeRange % cpuCount # 0

\* C17: the primeIndex the threads get is a valid index of the table, the
\* largest with trialDivisionPrimes[primeIndex] <= L, so that the sampler's
\* loop (from primeIndex down to index 3) covers the table primes from 7 to L.
C17_PrimeIndexIsLastTrialPrime ==
    RangesComputed =>
        /\ capturedIndex \in 0..(TableSize - 1)
        /\ Prime(capturedIndex) <= Level
        /\ \A i \in 0..(TableSize - 1) : Prime(i) <= Level => i <= capturedIndex
        /\ {Prime(i) : i \in 3..capturedIndex} = {p \in TrialPrimes : p >= 7}

\* C19: every launched thread has threadMax >= threadMin + 1, so that
\* range = threadMax - (threadMin + 1) does not wrap, and range <= threadRange.
C19_RangeDoesNotWrap ==
    \A t \in Launched :
        LET range == worker[t].threadMax - (worker[t].threadMin + 1)
        IN /\ worker[t].threadMax >= worker[t].threadMin + 1
           /\ range <= threadRange


(***************************************************************************)
(* The launch loop of mainBody (lines 324-345), one iteration of its       *)
(* alignment loop at a time, for targets whose ranges are too wide for the *)
(* threads to be followed draw by draw.  A run starts where mainBody       *)
(* enters the alignment loop for thread 0; the launched threads are not    *)
(* followed.                                                               *)
(***************************************************************************)
\* 2^23 + 1 and 2^30 + 1: targets of 24 and of 31 bits, whose semiprime-mode
\* ranges start at 1025 and at primeDict's 16411.
LargeTargets == {8388609, 1073741825}

\* Thread c at line 327: threadMin and threadMax are computed, not yet aligned.
AligningWorker(c) ==
    [IdleWorker EXCEPT !.pc = "align",
                       !.threadMin = ThreadMinStart(nodeMin, threadRange, c),
                       !.threadMax = ThreadMax(nodeMin, threadRange, c)]

LaunchInit ==
    /\ toFactor \in LargeTargets
    /\ semiprime = TRUE
    /\ nodeCount \in 1..MaxNodes
    /\ nodeId \in 0..(nodeCount - 1)
    /\ cpuCount \in 1..MaxCpu
    /\ mainPc = "align"
    /\ cpu = 0
    /\ primeIndex = 0
    /\ currentPrime = 2
    /\ capturedIndex = ClampedIndex(Level)
    /\ fullMinBase = FullMinBase(toFactor, semiprime, WalkPrime(Level))
    /\ fullMaxBase = FullMaxBase(toFactor, semiprime, WalkPrime(Level))
    /\ fullRange = FullRange(fullMinBase, fullMaxBase, Level)
    /\ nodeRange = NodeRange(fullRange, nodeCount)
    /\ nodeMin = NodeMin(fullMinBase, nodeRange, nodeId)
    /\ nodeMax = NodeMax(fullMinBase, nodeRange, nodeId)
    /\ threadRange = ThreadRange(nodeMin, nodeMax, cpuCount)
    /\ isFinished = FALSE
    /\ worker = [t \in Threads |-> IF t = 0 THEN AligningWorker(0) ELSE IdleWorker]
    /\ reports = <<>>

\* The alignment loop has been left: by its condition, or (mainPc = "aligned")
\* by its break at the end of the table.
AlignLoopLeft ==
    IF mainPc = "aligned" THEN TRUE ELSE mainPc = "align" /\ currentPrime > Level

\* Lines 332-339, one iteration:
\* threadMin = (threadMin / currentPrime) * currentPrime; primeIndex++; ...
AlignStep ==
    /\ mainPc = "align"
    /\ currentPrime <= Level
    /\ worker' = [worker EXCEPT
                    ![cpu].threadMin = (@ \div currentPrime) * currentPrime]
    /\ primeIndex' = primeIndex + 1
    /\ IF primeIndex + 1 >= TableSize
       THEN mainPc' = "aligned" /\ UNCHANGED currentPrime
       ELSE mainPc' = "align" /\ currentPrime' = Prime(primeIndex + 1)
    /\ UNCHANGED <<inputs, ranges, cpu, isFinished, reports>>

\* Lines 342-344 and 324-330: threadMin = (threadMin | 1U) + 2U, the thread is
\* launched, and the next iteration of the launch loop gets to its alignment.
AlignLaunch ==
    /\ AlignLoopLeft
    /\ IF cpu + 1 < cpuCount
       THEN /\ worker' = [worker EXCEPT
                            ![cpu].threadMin = OrOne(@) + 2,
                            ![cpu].pc = "start",
                            ![cpu + 1] = AligningWorker(cpu + 1)]
            /\ cpu' = cpu + 1
            /\ mainPc' = "align"
            /\ primeIndex' = 0
            /\ currentPrime' = 2
       ELSE /\ worker' = [worker EXCEPT
                            ![cpu].threadMin = OrOne(@) + 2,
                            ![cpu].pc = "start"]
            /\ cpu' = 0
            /\ mainPc' = "join"
            /\ UNCHANGED <<primeIndex, currentPrime>>
    /\ UNCHANGED <<inputs, ranges, isFinished, reports>>

LaunchNext ==
    \/ AlignStep
    \/ AlignLaunch

LaunchSpec == LaunchInit /\ [][LaunchNext]_vars

\* C15: when the alignment loop is left (before | 1 and + 2) the thread's
\* minimum is a multiple of every trial-division prime <= L, the largest such
\* common multiple not above the unaligned minimum.
C15_AlignedToAllTrialPrimes ==
    AlignLoopLeft =>
        LET start == ThreadMinStart(nodeMin, threadRange, cpu)
            aligned == worker[cpu].threadMin
        IN /\ aligned <= start
           /\ \A p \in TrialPrimes : aligned % p = 0
           /\ \A m \in (aligned + 1)..start : \E p \in TrialPrimes : m % p # 0

\* What the launch loop hands to its threads is what ThreadMin computes.
LaunchedAsComputed ==
    \A t \in Threads :
        worker[t].pc = "start" =>
            worker[t].threadMin = ThreadMin(nodeMin, threadRange, t, Level)

(***************************************************************************)
(* The period-guessing engine: main of src/qimcifa.cpp, the single-file    *)
(* variant of the program.  Its threads draw a base in [2, toFactor], test *)
(* gcd(toFactor, base), and otherwise guess a period r of the base, from   *)
(* which they try to recover a factor pair.  A run of it uses toFactor,    *)
(* cpuCount (its "threads"), isFinished, worker, reports, mainPc and cpu   *)
(* of the state above; the other variables stay as they start.             *)
(*                                                                         *)
(* Integers.  bitCapInt is here an unchecked unsigned cpp_int of           *)
(* 2^QBCAPPOW bits, and the random draws are made of 64-bit words.  The    *)
(* model's words have wordSize bits, so that targets TLC's integers hold   *)
(* need several words; a thread whose uipow would wrap around the width of *)
(* bitCapInt goes to "beyond".                                             *)
(***************************************************************************)
\* The width of a word of a chunked draw (the source has wordSize = 64U).
wordSize == 2
\* The batch length (the source has BATCH_SIZE = 1U << 9U).
BATCH_SIZE == 2
\* Targets 2..MaxShorTarget are all tried.
MaxShorTarget == 9
\* #define QBCAPPOW 12U: bitCapInt has 1 << QBCAPPOW bits.
QBCAPPOW == 12

ShorTargets == 2..MaxShorTarget

\* log2: the number of iterations of  p = n >> 1U; while (p != 0) { p >>= 1U; pow++; }
log2(n) == ShiftCount(n \div 2)

\* const bitCapInt qubitPower = ONE_BCI << qubitCount;
qubitPower(N) == Pow2(log2(N) + (IF isPowerOfTwo(N) THEN 0 ELSE 1))

\* const bitCapInt maxPow = ONE_BCI << wordSize;
maxPow == Pow2(wordSize)

RECURSIVE ChunkedHighFirst(_)
\* The values of  base = toFactorDist[0](rand_gen); base <<= wordSize;
\* base |= toFactorDist[i](rand_gen); ...  over the reversed toFactorDist, which
\* holds one distribution [0, word] per word of distPart, highest word first.
ChunkedHighFirst(distPart) ==
    IF distPart = 0 THEN {0}
    ELSE {h * maxPow + l : h \in ChunkedHighFirst(distPart \div maxPow),
                           l \in 0..(distPart % maxPow)}

\* The bases a thread can draw: base += 2U.
Bases(N) == {b + 2 : b \in ChunkedHighFirst(N - 2)}

RECURSIVE ChunkedLowFirst(_, _)
\* The values of  while (yPart) { yDist(0, yPart % maxPow); yPart >>= wordSize;
\* rGuess <<= wordSize; rGuess |= yDist(rand_gen); }  entered with rGuess = acc:
\* the lowest word of yRange bounds the first draw, which ends up highest.
ChunkedLowFirst(yPart, acc) ==
    IF yPart = 0 THEN {acc}
    ELSE UNION {ChunkedLowFirst(yPart \div maxPow, acc * maxPow + d) :
                    d \in 0..(yPart % maxPow)}

RECURSIVE intLog(_, _)
\* while (x >= base) { x /= base; result++; }
intLog(base, arg) == IF arg >= base THEN 1 + intLog(base, arg \div base) ELSE 0

RECURSIVE gcd(_, _)
\* if (n2 == 0) return n1; return gcd(n2, n1 % n2);
gcd(n1, n2) ==
    IF n2 = 0 THEN n1
    ELSE CHOOSE r \in {gcd(n2, m) : m \in {n1 % n2}} : TRUE

\* continued_fraction_step: the integer part, and the new *numerator and
\* *denominator.  It divides by *denominator.
continued_fraction_step(numerator, denominator) ==
    [intPart |-> numerator \div denominator,
     numerator |-> denominator,
     denominator |-> numerator - (numerator \div denominator) * denominator]

RECURSIVE CalcFrom(_, _, _, _)
\* for (int i = size - 1; i > 0; i--) { temp = denominators[i] * approxDenom +
\* approxNumer; approxNumer = approxDenom; approxDenom = temp; }
CalcFrom(denominators, i, approxNumer, approxDenom) ==
    IF i > 0
    THEN CalcFrom(denominators, i - 1, approxDenom,
                  denominators[i + 1] * approxDenom + approxNumer)
    ELSE [numerator |-> approxNumer, denominator |-> approxDenom]

\* calc_continued_fraction: approxNumer = 1U, approxDenom = denominators.back()
calc_continued_fraction(denominators) ==
    CalcFrom(denominators, Len(denominators) - 1, 1, denominators[Len(denominators)])

RECURSIVE Expand(_, _, _, _)
\* do { denominators.push_back(continued_fraction_step(&numerator, &denominator));
\*      calc_continued_fraction(denominators, &approxNumer, &approxDenom);
\* } while ((denominator > 0) && (approxDenom < toFactor));
\* entered with a denominator that is not 0.
Expand(numerator, denominator, denominators, N) ==
    CHOOSE ds \in
        {IF step.denominator > 0
               /\ calc_continued_fraction(Append(denominators, step.intPart)).denominator < N
         THEN Expand(step.numerator, step.denominator,
                     Append(denominators, step.intPart), N)
         ELSE Append(denominators, step.intPart) :
            step \in {continued_fraction_step(numerator, denominator)}} : TRUE

\* denominators.pop_back(); r = y if none is left, else the denominator of
\* calc_continued_fraction(denominators).
PeriodOf(y, N) ==
    LET all == Expand(qubitPower(N), y, <<>>, N)
        denominators == SubSeq(all, 1, Len(all) - 1)
    IN IF Len(denominators) = 0 THEN y
       ELSE calc_continued_fraction(denominators).denominator

\* if (r & 1U) r <<= 1U;  const bitCapInt p = r >> 1U;
HalfPeriod(r) == IF r % 2 = 1 THEN r ELSE r \div 2

RECURSIVE uipowMod(_, _, _, _)
\* uipow's loop  for (;;) { if (b & 1U) result *= b; e >>= 1U; if (!e) break;
\* b *= b; }  carried modulo an even m: the parity b & 1U and the residue
\* modulo m / 2 are those of the unreduced values.
uipowMod(result, b, e, m) ==
    CHOOSE v \in
        {IF e \div 2 = 0 THEN r2 ELSE uipowMod(r2, (b * b) % m, e \div 2, m) :
            r2 \in {IF b % 2 = 1 THEN (result * b) % m ELSE result}} : TRUE

\* uipow(base, exp) % toFactor
ApowRHalf(base, exp, N) == uipowMod(1, base % (2 * N), exp, 2 * N) % N

\* uipow's result stays below 2^(2^QBCAPPOW): it is 1 for an even base, and
\* else a product of 2^(number of iterations) - 1 factors base.
UipowFits(base, exp) ==
    LET iterations == IF exp = 0 THEN 1 ELSE ShiftCount(exp)
    IN \/ base % 2 = 0
       \/ /\ iterations <= QBCAPPOW
          /\ ShiftCount(base) * (Pow2(iterations) - 1) <= Pow2(QBCAPPOW)

\* The condition of the fold loop:
\* ((f1 * f2) != toFactor) && ((f1 * f2) > 1U) && ((toFactor / fmul) * fmul == toFactor)
FoldCond(f1, f2, fmul, N) ==
    /\ f1 * f2 # N
    /\ f1 * f2 > 1
    /\ (N \div fmul) * fmul = N

\* A fold that leaves f2 as it is.
FoldKeepsF2(f1, f2, N) ==
    [f1 |-> f1 * f2, f2 |-> f2, fmul |-> (f1 * f2) * f2]

\* The body of the fold loop:
\* fmul = f1; f1 = fmul * f2; f2 = toFactor / (fmul * f2); fmul = f1 * f2;
FoldStep(f1, f2, N) ==
    [f1 |-> f1 * f2,
     f2 |-> N \div (f1 * f2),
     fmul |-> (f1 * f2) * (N \div (f1 * f2))]


(***************************************************************************)
(* main of src/qimcifa.cpp and its threads                                 *)
(***************************************************************************)
mainBodyOnly == <<semiprime, nodeCount, nodeId, primeIndex, currentPrime, ranges>>

\* A thread that has not been launched.  pc is the thread's position:
\*   "idle"     not launched
\*   "draw"     at the head of the batch loop's body, about to draw a base
\*   "guess"    base is coprime to toFactor; about to guess a period
\*   "fold"     f1, f2 are computed; at the head of the fold loop
\*   "check"    between batches, about to read isFinished
\*   "returned" the thread's function has returned
\*   "threw"    a division by zero has ended the thread's function
\*   "beyond"   undefined behaviour, or a value wider than bitCapInt
ShorIdle ==
    [pc |-> "idle", batchItem |-> 0, base |-> 0, f1 |-> 0, f2 |-> 0, fmul |-> 0,
     folds |-> 0]

\* Lines 150-183: toFactor is read, isFinished = false.
ShorInit ==
    /\ toFactor \in ShorTargets
    /\ cpuCount \in 1..MaxCpu
    /\ semiprime = FALSE
    /\ nodeCount = 1
    /\ nodeId = 0
    /\ mainPc = "launch"
    /\ cpu = 0
    /\ primeIndex = 0
    /\ currentPrime = 2
    /\ capturedIndex = 0
    /\ fullMinBase = 0 /\ fullMaxBase = 0 /\ fullRange = 0
    /\ nodeRange = 0 /\ nodeMin = 0 /\ nodeMax = 0 /\ threadRange = 0
    /\ isFinished = FALSE
    /\ worker = [t \in Threads |-> ShorIdle]
    /\ reports = <<>>

\* Lines 184-185 and 296, one iteration of the launch loop.
ShorLaunch ==
    /\ mainPc = "launch"
    /\ cpu < cpuCount
    /\ worker' = [worker EXCEPT ![cpu] = [ShorIdle EXCEPT !.pc = "draw"]]
    /\ IF cpu + 1 < cpuCount
       THEN cpu' = cpu + 1 /\ mainPc' = "launch"
       ELSE cpu' = 0 /\ mainPc' = "join"
    /\ UNCHANGED <<toFactor, cpuCount, mainBodyOnly, isFinished, reports>>

\* Lines 298-302: futures[cpu].get(), in order; get() rethrows what has ended
\* the thread's function, which ends main.
ShorJoin ==
    /\ mainPc = "join"
    /\ worker[cpu].pc \in {"returned", "threw"}
    /\ IF worker[cpu].pc = "threw"
       THEN cpu' = cpu /\ mainPc' = "aborted"
       ELSE IF cpu + 1 < cpuCount
            THEN cpu' = cpu + 1 /\ mainPc' = "join"
            ELSE cpu' = cpu + 1 /\ mainPc' = "done"
    /\ UNCHANGED <<toFactor, cpuCount, mainBodyOnly, isFinished, worker, reports>>

\* Lines 192-208: the base is drawn; if it shares a factor with toFactor the
\* thread prints "Chose non- relative prime: testFactor * toFactor / testFactor"
\* and returns.  (toFactor = 2 leaves toFactorDist empty: toFactorDist[0] is
\* out of bounds.)
ShorDraw(t) ==
    /\ worker[t].pc = "draw"
    /\ IF toFactor - 2 = 0
       THEN /\ worker' = [worker EXCEPT ![t].pc = "beyond"]
            /\ UNCHANGED reports
       ELSE \E base \in Bases(toFactor) :
            \E testFactor \in {gcd(toFactor, base)} :
                IF testFactor # 1
                THEN /\ reports' = Append(reports,
                            [by |-> t, f1 |-> testFactor,
                             f2 |-> toFactor \div testFactor])
                     /\ worker' = [worker EXCEPT ![t].pc = "returned",
                                                 ![t].f1 = testFactor,
                                                 ![t].f2 = toFactor \div testFactor]
                ELSE /\ worker' = [worker EXCEPT ![t].pc = "guess",
                                                 ![t].base = base]
                     /\ UNCHANGED reports
    /\ UNCHANGED <<toFactor, cpuCount, mainBodyOnly, mainPc, cpu, isFinished>>

\* const bitCapInt minR = intLog(base, toFactor);
MinR(base, N) == intLog(base, N)

\* The values rGuess can take: the chunked draw over yRange, += minR.
RGuesses(base, N) ==
    {rg + MinR(base, N) : rg \in ChunkedLowFirst(qubitPower(N) - MinR(base, N), 0)}

\* The values c can take: the chunked draw over yRange, c++.
CGuesses(base, N) ==
    {cc + 1 : cc \in ChunkedLowFirst(qubitPower(N) - MinR(base, N), 0)}

\* const bitCapInt y = (c * qubitPower) / rGuess;
YOf(c, rGuess, N) == (c * qubitPower(N)) \div rGuess

\* Lines 217-270 for one rGuess and one c: y is expanded into a continued
\* fraction, whose first step divides by y; then r, p, apowrhalf, f1, f2.
\* The outcome is where the thread gets to: "threw" on the division by zero,
\* "beyond" where uipow would wrap (or apowrhalf = 0 would make
\* apowrhalf - 1U wrap), else the head of the fold loop, "fold", with f1, f2.
GuessOutcome(base, rGuess, c, N) ==
    IF rGuess = 0 \/ YOf(c, rGuess, N) = 0
    THEN [pc |-> "threw", f1 |-> 0, f2 |-> 0]
    ELSE CHOOSE o \in
            {IF ~UipowFits(base, p) \/ ApowRHalf(base, p, N) = 0
             THEN [pc |-> "beyond", f1 |-> 0, f2 |-> 0]
             ELSE [pc |-> "fold",
                   f1 |-> gcd(ApowRHalf(base, p, N) + 1, N),
                   f2 |-> gcd(ApowRHalf(base, p, N) - 1, N)] :
                p \in {HalfPeriod(PeriodOf(YOf(c, rGuess, N), N))}} : TRUE

\* The outcomes of the guess, by target and by base coprime to the target.
GuessOutcomes ==
    [N \in ShorTargets |->
        [base \in {b \in Bases(N) : gcd(N, b) = 1} |->
            {GuessOutcome(base, rGuess, c, N) :
                rGuess \in RGuesses(base, N), c \in CGuesses(base, N)}]]

\* Lines 217-270: rGuess and c are drawn, and the guess is worked out.
ShorGuess(t) ==
    /\ worker[t].pc = "guess"
    /\ \E o \in GuessOutcomes[toFactor][worker[t].base] :
          worker' = [worker EXCEPT ![t].pc = o.pc,
                                   ![t].f1 = o.f1,
                                   ![t].f2 = o.f2,
                                   ![t].fmul = o.f1 * o.f2,
                                   ![t].folds = 0]
    /\ UNCHANGED <<toFactor, cpuCount, mainBodyOnly, mainPc, cpu, isFinished,
                   reports>>

\* Lines 271-276: one iteration of the fold loop.
ShorFold(t) ==
    /\ worker[t].pc = "fold"
    /\ FoldCond(worker[t].f1, worker[t].f2, worker[t].fmul, toFactor)
    /\ LET s == FoldStep(worker[t].f1, worker[t].f2, toFactor)
       IN worker' = [worker EXCEPT ![t].f1 = s.f1, ![t].f2 = s.f2,
                                   ![t].fmul = s.fmul,
                                   ![t].folds = worker[t].folds + 1]
    /\ UNCHANGED <<toFactor, cpuCount, mainBodyOnly, mainPc, cpu, isFinished,
                   reports>>

\* Lines 277-288: the fold loop is left; on success the thread prints
\* "Success: Found f1 * f2 = toFactor", sets the flag and returns; else
\* the next batch item.
ShorDecide(t) ==
    /\ worker[t].pc = "fold"
    /\ ~FoldCond(worker[t].f1, worker[t].f2, worker[t].fmul, toFactor)
    /\ IF /\ worker[t].f1 * worker[t].f2 = toFactor
          /\ worker[t].f1 > 1
          /\ worker[t].f2 > 1
       THEN /\ reports' = Append(reports,
                   [by |-> t, f1 |-> worker[t].f1, f2 |-> worker[t].f2])
            /\ isFinished' = TRUE
            /\ worker' = [worker EXCEPT ![t].pc = "returned"]
       ELSE /\ worker' = [worker EXCEPT ![t] =
                   [ShorIdle EXCEPT
                       !.batchItem = worker[t].batchItem + 1,
                       !.pc = IF worker[t].batchItem + 1 < BATCH_SIZE
                              THEN "draw" ELSE "check"]]
            /\ UNCHANGED <<isFinished, reports>>
    /\ UNCHANGED <<toFactor, cpuCount, mainBodyOnly, mainPc, cpu>>

\* Lines 290-293: between batches, if (isFinished) break.
ShorBatchCheck(t) ==
    /\ worker[t].pc = "check"
    /\ IF isFinished
       THEN worker' = [worker EXCEPT ![t].pc = "returned"]
       ELSE worker' = [worker EXCEPT ![t].pc = "draw", ![t].batchItem = 0]
    /\ UNCHANGED <<toFactor, cpuCount, mainBodyOnly, mainPc, cpu, isFinished,
                   reports>>

ShorStep(t) ==
    \/ ShorDraw(t)
    \/ ShorGuess(t)
    \/ ShorFold(t)
    \/ ShorDecide(t)
    \/ ShorBatchCheck(t)

ShorNext ==
    \/ ShorLaunch
    \/ ShorJoin
    \/ \E t \in Threads : ShorStep(t)

ShorSpec == ShorInit /\ [][ShorNext]_vars


(***************************************************************************)
(* Properties of the period-guessing engine                                *)
(***************************************************************************)
\* C13: a worker thread returns only with the flag set: in every state in
\* which some thread has returned, isFinished is true.
C13_ReturnedImpliesFlag ==
    (\E t \in Threads : worker[t].pc = "returned") => isFinished

RECURSIVE PowMod(_, _, _)
\* base^exp mod N
PowMod(base, exp, N) ==
    IF exp = 0 THEN 1 % N
    ELSE CHOOSE v \in
            {((IF exp % 2 = 1 THEN h * h * base ELSE h * h)) % N :
                h \in {PowMod(base, exp \div 2, N)}} : TRUE

\* The exponents p a thread at "guess" can hand to uipow.
Exponents(t) ==
    {HalfPeriod(PeriodOf(YOf(c, rGuess, toFactor), toFactor)) :
        <<rGuess, c>> \in
            {gc \in RGuesses(worker[t].base, toFactor)
                        \X CGuesses(worker[t].base, toFactor) :
                gc[1] # 0 /\ YOf(gc[2], gc[1], toFactor) # 0}}

\* C16: the apowrhalf of every base and exponent p a thread comes to is
\* base^p mod toFactor.
C16_UipowIsPower ==
    \A t \in Threads :
        worker[t].pc = "guess" =>
            \A p \in Exponents(t) :
                UipowFits(worker[t].base, p) =>
                    ApowRHalf(worker[t].base, p, toFactor)
                        = PowMod(worker[t].base, p, toFactor)

\* The divisors of N.
Divisors(N) == {d \in 1..N : N % d = 0}

\* C18: the fold loop runs at most one iteration, and after an iteration it is
\* left with f1 * f2 = toFactor, f1 > 1 and f2 > 1: in every thread, and for
\* all divisors f1, f2 of toFactor.
C18_FoldRunsAtMostOnce ==
    /\ \A t \in Threads :
          worker[t].pc \in {"fold", "returned"} =>
              /\ worker[t].folds <= 1
              /\ worker[t].folds = 1 =>
                    /\ ~FoldCond(worker[t].f1, worker[t].f2, worker[t].fmul, toFactor)
                    /\ worker[t].f1 * worker[t].f2 = toFactor
                    /\ worker[t].f1 > 1
                    /\ worker[t].f2 > 1
    /\ \A f1, f2 \in Divisors(toFactor) :
          FoldCond(f1, f2, f1 * f2, toFactor) =>
              LET s == FoldStep(f1, f2, toFactor)
              IN /\ ~FoldCond(s.f1, s.f2, s.fmul, toFactor)
                 /\ s.f1 * s.f2 = toFactor
                 /\ s.f1 > 1
                 /\ s.f2 > 1

\* C18, witness: a thread has reported the pair its one fold has made.
C18_Witness ==
    \E t \in Threads :
        /\ worker[t].pc = "returned"
        /\ worker[t].folds = 1
        /\ isFinished
        /\ \E i \in 1..Len(reports) :
              reports[i] = [by |-> t, f1 |-> worker[t].f1, f2 |-> worker[t].f2]

\* C20: for every base a thread has drawn, every rGuess it can draw is in
\* [minR, qubitPower] and at least 1, every c at least 1 and y at least 1, and
\* no thread divides by a zero denominator.
C20_NoZeroDenominator ==
    \A t \in Threads :
        /\ worker[t].pc # "threw"
        /\ worker[t].pc = "guess" =>
              /\ \A rGuess \in RGuesses(worker[t].base, toFactor) :
                    /\ MinR(worker[t].base, toFactor) <= rGuess
                    /\ rGuess <= qubitPower(toFactor)
                    /\ rGuess >= 1
              /\ \A c \in CGuesses(worker[t].base, toFactor) : c >= 1
              /\ \A rGuess \in RGuesses(worker[t].base, toFactor) :
                 \A c \in CGuesses(worker[t].base, toFactor) :
                    YOf(c, rGuess, toFactor) >= 1


=============================================================================
